---- MODULE Spec2Model ----
(***************************************************************************)
(* Model of the background service worker of the "Soft Auto Reload"        *)
(* extension (src/background.js): the per-tab reload state machine, its    *)
(* alarms, the durable copy of the tab states and the messages pushed to   *)
(* the content script.                                                     *)
(*                                                                         *)
(* Time.  Every timestamp of the program (nextReloadAt, the `when` of an   *)
(* alarm, the nextReloadAt carried by a CONFIGURE) is kept RELATIVE to the *)
(* current instant: the model stores  timestamp - Date.now(), floored at   *)
(* 0.  Date.now() is therefore the constant Now == 0 and the passage of    *)
(* time (action Tick) lowers every stored timestamp by TimeStep.  The code *)
(* only ever adds a duration to Date.now(), subtracts Date.now() from a    *)
(* timestamp under Math.max(0, .), or compares a timestamp with            *)
(* Date.now(), so the floor loses nothing the code can read.               *)
(*                                                                         *)
(* Handlers.  Every listener is an async function.  One action of the      *)
(* model is the code that runs between two suspension points (an await of  *)
(* a chrome.* promise); an await of an already settled promise (an async   *)
(* function that returned without suspending) does not let another event   *)
(* in and is part of the same action.  A chrome.* call takes effect when   *)
(* it is issued.  hs holds the handlers in flight.                         *)
(***************************************************************************)
EXTENDS Integers, Sequences, FiniteSets, TLC

\* ------------------------------------------------------------------ bounds
Tabs == {1, 2}
\* number of handlers that may be in flight at once in SpecConc
MaxInFlight == 2
\* number of events of the user and the browser (messages, navigation, activation,
\* focus, close, restart) in a run; alarms and the passage of time are not counted
MaxEvents == 4
\* the same, for the runs with interleaved handlers
MaxEventsConc == 3
Slots == 1..MaxInFlight
\* number of setInterval calls of the content script in a run
MaxTimers == 3
\* number of seconds the clock of the content script's page advances in a run
MaxProbeSeconds == 3
\* the pages that run the lead detection
Pages == {1, 2}
\* the ids (urls) of the leads a page can show
LeadIds == {"a", "b", "c"}
\* number of calls of waitForLeadsAndLogNew in a run
MaxScrapeRuns == 3
\* the latest Date.now() of the lead detection (the first is 1)
MaxScrapeTime == 2

\* ------------------------------------------------------- program constants
\* scheduleReload: Math.max(1000, delayMs)
MinDelayMs == 1000
\* ensureState: intervalMs: 60000
DefaultIntervalMs == 60000
\* startTicking: setInterval(..., 1000)
TickPeriodMs == 1000

TimeStep == MinDelayMs \div 2
Null == -1
Now == 0

OptKeys == {"autoStart", "pauseWhenInactive", "badgeCountdown"}
\* an options object: a key that is absent is omitted
NoOpts == [k \in {} |-> TRUE]
AllOpts == [k \in OptKeys |-> TRUE]
Without(key) == [k \in {key} |-> FALSE]
\* the START_TAB messages (intervalMs, options) a tab is sent
StartInputs(t) ==
  IF t = 1
  THEN { <<TimeStep, NoOpts>>, <<3 * TimeStep, AllOpts>>, <<3 * TimeStep, Without("autoStart")>>,
         <<TimeStep, Without("pauseWhenInactive")>>, <<3 * TimeStep, Without("badgeCountdown")>> }
  ELSE { <<3 * TimeStep, NoOpts>>, <<TimeStep, Without("pauseWhenInactive")>> }

\* the remainingMs of the TICK messages a probe sends
TickInputs == {999, 1000, 61000}

VARIABLES
  tabStates,   \* the in-memory map: a function from the tab ids that have an entry
  det,         \* TabState objects no longer in the map but still referenced by a handler
  stored,      \* chrome.storage.local[STORAGE_KEY]
  alarms,      \* chrome.alarms: tab -> when (relative), Null when none is pending
  fired,       \* tabs whose alarm has fired and whose onAlarm event is not yet dispatched
  hs,          \* handlers in flight, by slot
  lastPush,    \* the message the latest step sent with safeSend (NoPush: none)
  badge,       \* the badge text
  active,      \* the active tab of the current window, 0 when none
  open,        \* the tabs that exist
  startup,     \* an onStartup event is pending
  conc,        \* how many handlers may be in flight (fixed by the specification)
  nev,         \* how many events of the user and the browser have been dispatched
  trip,        \* per tab, how far a start -> pause -> resume sequence got, with
               \* the Date.now() of its steps (read by the properties only)
  probe,       \* the content script of one page: its module variables, the interval
               \* timers of the page, its clock and the message its latest step sent
  scrape,      \* the lead detection of the content scripts: the stored seen-set, the
               \* clock, the run of each page and what the latest step logged
  focused      \* a window of the browser has the focus

vars == <<tabStates, det, stored, alarms, fired, hs, lastPush, badge, active, open, startup, conc,
         nev, trip, probe, scrape, focused>>

\* ------------------------------------------------------------ TabState
DefaultState ==
  [enabled |-> FALSE, intervalMs |-> DefaultIntervalMs, autoStart |-> TRUE,
   pauseWhenInactive |-> TRUE, badgeCountdown |-> TRUE, paused |-> FALSE,
   remainingMs |-> Null, nextReloadAt |-> Null]

Max(a, b) == IF a >= b THEN a ELSE b

\* ensureState(tabId): the map with a default entry added when tabId has none
ensureState(ts, t) ==
  IF t \in DOMAIN ts THEN ts
  ELSE [k \in DOMAIN ts \cup {t} |-> IF k = t THEN DefaultState ELSE ts[k]]

\* what ensureState(t) returns in the current state (also what GET_STATE answers)
View(t) == IF t \in DOMAIN tabStates THEN tabStates[t] ELSE DefaultState

\* options.k ?? true
Opt(o, k) == IF k \in DOMAIN o THEN o[k] ELSE TRUE

\* startTab without lines 90-91: a paused tab stays paused when started again
startTabFieldsKeepsPause(st, intervalMs, o) ==
  [st EXCEPT !.enabled = TRUE, !.intervalMs = intervalMs,
             !.autoStart = Opt(o, "autoStart"),
             !.pauseWhenInactive = Opt(o, "pauseWhenInactive"),
             !.badgeCountdown = Opt(o, "badgeCountdown"),
             !.nextReloadAt = Now + intervalMs]

\* startTab, lines 85-92
startTabFields(st, intervalMs, o) ==
  [st EXCEPT !.enabled = TRUE, !.intervalMs = intervalMs,
             !.autoStart = Opt(o, "autoStart"),
             !.pauseWhenInactive = Opt(o, "pauseWhenInactive"),
             !.badgeCountdown = Opt(o, "badgeCountdown"),
             !.paused = FALSE, !.remainingMs = Null,
             !.nextReloadAt = Now + intervalMs]

\* lines 108-111 without line 111: the old nextReloadAt stays
stopTabFieldsKeepsDue(st) ==
  [st EXCEPT !.enabled = FALSE, !.paused = FALSE, !.remainingMs = Null]

\* stopTab, lines 108-111
stopTabFields(st) ==
  [st EXCEPT !.enabled = FALSE, !.paused = FALSE, !.remainingMs = Null, !.nextReloadAt = Null]

\* line 123 without st.paused: a paused tab is paused again
pauseTabSkipsNotPaused(st) == ~st.enabled \/ ~st.pauseWhenInactive

\* pauseTab, line 123: the early return
pauseTabSkips(st) == ~st.enabled \/ st.paused \/ ~st.pauseWhenInactive

\* lines 125-129 without the time that has passed: the whole interval is kept
pauseTabFieldsWholeInterval(st) ==
  [st EXCEPT !.paused = TRUE, !.remainingMs = st.intervalMs, !.nextReloadAt = Null]

\* pauseTab, lines 125-129
pauseTabFields(st) ==
  [st EXCEPT !.paused = TRUE,
             !.remainingMs = IF st.nextReloadAt # Null
                             THEN Max(0, st.nextReloadAt - Now) ELSE st.intervalMs,
             !.nextReloadAt = Null]

\* line 141 with the test of paused inverted
resumeTabSkipsPaused(st) == ~st.enabled \/ st.paused

\* resumeTab, line 141: the early return
resumeTabSkips(st) == ~st.enabled \/ ~st.paused

\* line 144 without remainingMs: a resumed tab starts a whole interval again
resumeDelayWholeInterval(st) == st.intervalMs

\* resumeTab, line 144
resumeDelay(st) == IF st.remainingMs # Null THEN st.remainingMs ELSE st.intervalMs

\* resumeTab, lines 143-146
resumeTabFields(st) ==
  [st EXCEPT !.paused = FALSE, !.remainingMs = Null, !.nextReloadAt = Now + resumeDelay(st)]

\* line 176 without the test of paused
alarmSkipsDisabledOnly(st) == ~st.enabled

\* onAlarm, line 176: the stale-fire guard
alarmSkips(st) == ~st.enabled \/ st.paused

\* onAlarm, line 187
alarmNextFields(st) == [st EXCEPT !.nextReloadAt = Now + st.intervalMs]

\* onUpdated, lines 198 and 201: whether the schedule is rebuilt
navRearms(st) ==
  /\ st.enabled /\ st.autoStart
  /\ ~st.paused /\ (st.nextReloadAt = Null \/ st.nextReloadAt <= Now)

\* scheduleReload, line 62: the `when` of the alarm
scheduleWhen(delayMs) == Now + Max(MinDelayMs, delayMs)

\* ------------------------------------------------------------ badge text
Digit(d) == CASE d = 0 -> "0" [] d = 1 -> "1" [] d = 2 -> "2" [] d = 3 -> "3" [] d = 4 -> "4"
              [] d = 5 -> "5" [] d = 6 -> "6" [] d = 7 -> "7" [] d = 8 -> "8" [] OTHER -> "9"

RECURSIVE DecStr(_)
\* String(n) for n >= 0
DecStr(n) == IF n < 10 THEN Digit(n) ELSE DecStr(n \div 10) \o Digit(n % 10)

\* String(n).padStart(2, "0")
Pad2(n) == IF n < 10 THEN "0" \o Digit(n) ELSE DecStr(n)

\* formatMMSS(ms); Math.floor(ms / 1000) floors towards minus infinity, as \div does
formatMMSS(ms) ==
  LET totalSec == Max(0, ms \div 1000)
  IN  Pad2(totalSec \div 60) \o ":" \o Pad2(totalSec % 60)

\* ------------------------------------------------------------ messages
NoPush == [type |-> "none", tab |-> 0, badgeCountdown |-> FALSE, nextReloadAt |-> Null]
\* safeSend(tabId, {type: "CONFIGURE", enabled: true, badgeCountdown, nextReloadAt})
Configure(t, st) ==
  [type |-> "CONFIGURE", tab |-> t, badgeCountdown |-> st.badgeCountdown,
   nextReloadAt |-> st.nextReloadAt]
PauseMsg(t) == [type |-> "PAUSE", tab |-> t, badgeCountdown |-> FALSE, nextReloadAt |-> Null]
DisableMsg(t) == [type |-> "DISABLE", tab |-> t, badgeCountdown |-> FALSE, nextReloadAt |-> Null]

\* ------------------------------------------------------------ handlers
\* op: the listener; pc: the await it is suspended on; tab: the tabId of the function
\* it is in; st: the TabState object that function holds (0: the one in the map,
\* d > 0: det[d]); iv: the delay it will pass to scheduleReload (and intervalMs of
\* startTab); self: tabId of onActivated; todo: tabs the onActivated loop has not
\* visited yet; ret: where the function it is in returns to; exp: what startTab
\* computed as Date.now() + intervalMs (read by the properties only)
Idle == [op |-> "idle", pc |-> "idle", tab |-> 0, st |-> 0, iv |-> 0, self |-> 0,
         todo |-> <<>>, ret |-> "done", exp |-> Null]

Busy == {s \in Slots : hs[s].op # "idle"}
NoneInFlight == Busy = {}
\* a new event is dispatched into the lowest free slot
FreeSlot == CHOOSE s \in Slots \ Busy : \A r \in Slots \ Busy : s <= r
CanDispatch == Cardinality(Busy) < conc
\* the event is one of the MaxEvents of the run
Counted == nev < (IF conc = 1 THEN MaxEvents ELSE MaxEventsConc) /\ nev' = nev + 1

\* the pcs at which the function still reads or writes the TabState object it holds
UsesSt == {"start2", "start3", "start4", "resume2", "resume3", "alarm2", "alarm3", "nav2", "nav3"}

\* the object handler h holds
Obj(h) == IF h.st = 0 THEN tabStates[h.tab] ELSE det[h.st]

\* objects that leave the map stay alive for the handlers that hold them:
\* gone is the set of tabs whose map entry is deleted or replaced
Detach(hh, dd, ts, gone) ==
  LET holders(t) == {s \in Slots : hh[s].pc \in UsesSt /\ hh[s].st = 0 /\ hh[s].tab = t}
      need == {t \in gone : holders(t) # {}}
      free == Slots \ DOMAIN dd
      RECURSIVE Go(_, _, _)
      Go(todo, h2, d2) ==
        IF todo = {} THEN [hs |-> h2, det |-> d2]
        ELSE LET t == CHOOSE x \in todo : \A y \in todo : x <= y
                 fr == Slots \ DOMAIN d2
                 d == CHOOSE x \in fr : \A y \in fr : x <= y
             IN  Go(todo \ {t},
                    [s \in Slots |-> IF s \in holders(t) THEN [h2[s] EXCEPT !.st = d] ELSE h2[s]],
                    [x \in DOMAIN d2 \cup {d} |-> IF x = d THEN ts[t] ELSE d2[x]])
  IN  Go(need, hh, dd)

\* detached objects nobody holds any more are dropped
Collect(hh, dd) ==
  [d \in {x \in DOMAIN dd : \E s \in Slots : hh[s].pc \in UsesSt /\ hh[s].st = x} |-> dd[d]]

\* ------------------------------------------------------------ start -> pause -> resume
NoTrip == [ph |-> "none", due |-> Null, left |-> Null, waited |-> FALSE]

\* the sequence of tab t after a step: start at t0 with intervalMs I is followed by
\* due = t0 + I; a pause at t1 by left = max(0, due - t1); a resume at t2 by
\* due = t2 + left; any other change of the tab's state ends the sequence; waited
\* records that time passed while the tab was paused
TripFollow(t) ==
  LET a == View(t)
      b == View(t)'
  IN  IF b = a THEN trip[t]
      ELSE IF trip[t].ph = "started" /\ ~a.paused /\ b.paused
           THEN [ph |-> "paused", due |-> Null, left |-> Max(0, trip[t].due - Now),
                 waited |-> FALSE]
      ELSE IF trip[t].ph = "paused" /\ a.paused /\ ~b.paused /\ b.enabled
           THEN [ph |-> "resumed", due |-> Now + trip[t].left, left |-> trip[t].left,
                 waited |-> trip[t].waited]
      ELSE NoTrip

TripFollows == trip' = [t \in Tabs |-> TripFollow(t)]

\* ------------------------------------------------------------ building blocks
EmptyMap == [k \in {} |-> DefaultState]
NoAlarms == [t \in Tabs |-> Null]

\* clearReloadAlarm(tabId): chrome.alarms.clear(alarmName(tabId))
clearReloadAlarm(al, t) == [al EXCEPT ![t] = Null]

\* scheduleReload(tabId, delayMs): chrome.alarms.create replaces an alarm of the same name
scheduleReload(al, t, delayMs) == [al EXCEPT ![t] = scheduleWhen(delayMs)]

\* a saveStates that writes nothing: the store keeps what it held
saveStatesSkipped(ts) == stored

\* saveStates(): chrome.storage.local.set({ tabStates }), the whole map as it is at the call
saveStates(ts) == ts

\* a write through the reference handler h holds
WriteMap(h, r) == IF h.st = 0 THEN [tabStates EXCEPT ![h.tab] = r] ELSE tabStates
WriteDet(h, r) == IF h.st = 0 THEN det ELSE [det EXCEPT ![h.st] = r]

New(op, pc, t) == [Idle EXCEPT !.op = op, !.pc = pc, !.tab = t]

\* the handlers after slot s becomes h, with the objects nobody holds dropped
SetH(s, h) ==
  LET hh == [hs EXCEPT ![s] = h]
  IN  hs' = hh /\ det' = Collect(hh, det)

RECURSIVE SeqOf(_)
\* chrome.tabs.query: the tabs of a set, by ascending id
SeqOf(S) ==
  IF S = {} THEN <<>>
  ELSE LET m == CHOOSE x \in S : \A y \in S : x <= y IN <<m>> \o SeqOf(S \ {m})

RECURSIVE pauseOthersAndSelf(_, _, _)
\* the loop without `t.id === tabId` of line 222: the activated tab is visited too
pauseOthersAndSelf(ts, todo, self) ==
  IF todo = <<>> THEN [ts |-> ts, hit |-> 0, rest |-> <<>>]
  ELSE LET t == Head(todo)
           ts1 == ensureState(ts, t)
       IN  IF ts1[t].enabled /\ ts1[t].pauseWhenInactive /\ ~pauseTabSkips(ts1[t])
           THEN [ts |-> [ts1 EXCEPT ![t] = pauseTabFields(ts1[t])], hit |-> t,
                 rest |-> Tail(todo)]
           ELSE pauseOthersAndSelf(ts1, Tail(todo), self)

RECURSIVE pauseOthers(_, _, _)
\* onActivated, lines 221-225: the loop runs on until a pauseTab suspends; the result
\* is the map, the tab whose pauseTab suspended (0: the loop ended) and the tabs left
pauseOthers(ts, todo, self) ==
  IF todo = <<>> THEN [ts |-> ts, hit |-> 0, rest |-> <<>>]
  ELSE LET t == Head(todo)
           ts1 == ensureState(ts, t)
       IN  IF t = self THEN pauseOthers(ts, Tail(todo), self)
           ELSE IF ts1[t].enabled /\ ts1[t].pauseWhenInactive /\ ~pauseTabSkips(ts1[t])
                THEN [ts |-> [ts1 EXCEPT ![t] = pauseTabFields(ts1[t])], hit |-> t,
                      rest |-> Tail(todo)]
                ELSE pauseOthers(ts1, Tail(todo), self)

\* line 242 left out: the entry of a closed tab stays
deleteEntryKeeps(ts, t) == ts

\* onRemoved, line 242: delete tabStates[key]
deleteEntry(ts, t) == [k \in DOMAIN ts \ {t} |-> ts[k]]

\* ------------------------------------------------------------ START_TAB / startTab
\* lines 249-255 and 83-94: up to the await of clearReloadAlarm
StartTabMsg(t, intervalMs, o) ==
  /\ Counted
  /\ CanDispatch /\ t \in open
  /\ LET ts1 == ensureState(tabStates, t)
     IN  tabStates' = [ts1 EXCEPT ![t] = startTabFields(ts1[t], intervalMs, o)]
  /\ alarms' = clearReloadAlarm(alarms, t)
  /\ SetH(FreeSlot, [New("start", "start2", t) EXCEPT !.iv = intervalMs,
                                                      !.exp = Now + intervalMs])
  /\ lastPush' = NoPush
  /\ UNCHANGED <<probe, scrape, focused>>
  /\ UNCHANGED <<stored, fired, badge, active, open, startup, conc>>
  /\ trip' = [trip EXCEPT ![t] = [ph |-> "started", due |-> Now + intervalMs, left |-> Null,
                                  waited |-> FALSE]]

\* lines 95-96: scheduleReload, then saveStates up to its await
Start2(s) ==
  /\ hs[s].pc = "start2"
  /\ alarms' = scheduleReload(alarms, hs[s].tab, hs[s].iv)
  /\ stored' = saveStates(tabStates)
  /\ SetH(s, [hs[s] EXCEPT !.pc = "start3"])
  /\ lastPush' = NoPush
  /\ UNCHANGED <<probe, scrape, focused>>
  /\ UNCHANGED <<tabStates, fired, badge, active, open, startup, conc, nev>>
  /\ TripFollows

\* lines 98-101: safeSend, then getActiveTabId up to its await
Start3(s) ==
  /\ hs[s].pc = "start3"
  /\ lastPush' = Configure(hs[s].tab, Obj(hs[s]))
  /\ UNCHANGED <<probe, scrape, focused>>
  /\ SetH(s, [hs[s] EXCEPT !.pc = "start4"])
  /\ UNCHANGED <<tabStates, stored, alarms, fired, badge, active, open, startup, conc, nev>>
  /\ TripFollows

\* line 102
Start4(s) ==
  /\ hs[s].pc = "start4"
  /\ badge' = IF active = hs[s].tab /\ Obj(hs[s]).badgeCountdown
              THEN formatMMSS(hs[s].iv) ELSE badge
  /\ SetH(s, Idle)
  /\ lastPush' = NoPush
  /\ UNCHANGED <<probe, scrape, focused>>
  /\ UNCHANGED <<tabStates, stored, alarms, fired, active, open, startup, conc, nev>>
  /\ TripFollows

\* ------------------------------------------------------------ STOP_TAB / stopTab
\* lines 257-261 and 105-113
StopTabMsg(t) ==
  /\ Counted
  /\ CanDispatch /\ t \in open
  /\ lastPush' = NoPush
  /\ UNCHANGED <<probe, scrape, focused>>
  /\ IF t \notin DOMAIN tabStates
     THEN UNCHANGED <<tabStates, alarms, hs, det>>
     ELSE /\ tabStates' = [tabStates EXCEPT ![t] = stopTabFields(tabStates[t])]
          /\ alarms' = clearReloadAlarm(alarms, t)
          /\ SetH(FreeSlot, New("stop", "stop2", t))
  /\ UNCHANGED <<stored, fired, badge, active, open, startup, conc>>
  /\ TripFollows

\* line 114
Stop2(s) ==
  /\ hs[s].pc = "stop2"
  /\ stored' = saveStates(tabStates)
  /\ SetH(s, [hs[s] EXCEPT !.pc = "stop3"])
  /\ lastPush' = NoPush
  /\ UNCHANGED <<probe, scrape, focused>>
  /\ UNCHANGED <<tabStates, alarms, fired, badge, active, open, startup, conc, nev>>
  /\ TripFollows

\* lines 115-117
Stop3(s) ==
  /\ hs[s].pc = "stop3"
  /\ lastPush' = DisableMsg(hs[s].tab)
  /\ UNCHANGED <<probe, scrape, focused>>
  /\ SetH(s, [hs[s] EXCEPT !.pc = "stop4"])
  /\ UNCHANGED <<tabStates, stored, alarms, fired, badge, active, open, startup, conc, nev>>
  /\ TripFollows

\* line 118; stopTab's callers (STOP_TAB, the catch of onAlarm) return after it
Stop4(s) ==
  /\ hs[s].pc = "stop4"
  /\ badge' = IF active = hs[s].tab THEN "" ELSE badge
  /\ SetH(s, Idle)
  /\ lastPush' = NoPush
  /\ UNCHANGED <<probe, scrape, focused>>
  /\ UNCHANGED <<tabStates, stored, alarms, fired, active, open, startup, conc, nev>>
  /\ TripFollows

\* ------------------------------------------------------------ pauseTab (after line 129)
\* the caller's step ran pauseTab up to the await of clearReloadAlarm; line 132
Pause2(s) ==
  /\ hs[s].pc = "pause2"
  /\ stored' = saveStates(tabStates)
  /\ SetH(s, [hs[s] EXCEPT !.pc = "pause3"])
  /\ lastPush' = NoPush
  /\ UNCHANGED <<probe, scrape, focused>>
  /\ UNCHANGED <<tabStates, alarms, fired, badge, active, open, startup, conc, nev>>
  /\ TripFollows

\* lines 133-135
Pause3(s) ==
  /\ hs[s].pc = "pause3"
  /\ lastPush' = PauseMsg(hs[s].tab)
  /\ UNCHANGED <<probe, scrape, focused>>
  /\ SetH(s, [hs[s] EXCEPT !.pc = "pause4"])
  /\ UNCHANGED <<tabStates, stored, alarms, fired, badge, active, open, startup, conc, nev>>
  /\ TripFollows

\* line 136, then back in the caller: onFocusChanged ends with setBadge("") (line 235),
\* onActivated goes on with its loop (lines 221-225)
Pause4(s) ==
  /\ hs[s].pc = "pause4"
  /\ lastPush' = NoPush
  /\ UNCHANGED <<probe, scrape, focused>>
  /\ IF hs[s].ret = "blur_end"
     THEN /\ badge' = ""
          /\ SetH(s, Idle)
          /\ UNCHANGED <<tabStates, alarms>>
     ELSE LET r == pauseOthers(tabStates, hs[s].todo, hs[s].self)
          IN  /\ badge' = IF active = hs[s].tab THEN "" ELSE badge
              /\ tabStates' = r.ts
              /\ IF r.hit = 0
                 THEN SetH(s, Idle) /\ UNCHANGED alarms
                 ELSE /\ alarms' = clearReloadAlarm(alarms, r.hit)
                      /\ SetH(s, [hs[s] EXCEPT !.pc = "pause2", !.tab = r.hit, !.todo = r.rest])
  /\ UNCHANGED <<stored, fired, active, open, startup, conc, nev>>
  /\ TripFollows

\* ------------------------------------------------------------ resumeTab (after line 148)
\* lines 149-150
Resume2(s) ==
  /\ hs[s].pc = "resume2"
  /\ alarms' = scheduleReload(alarms, hs[s].tab, hs[s].iv)
  /\ stored' = saveStates(tabStates)
  /\ SetH(s, [hs[s] EXCEPT !.pc = "resume3"])
  /\ lastPush' = NoPush
  /\ UNCHANGED <<probe, scrape, focused>>
  /\ UNCHANGED <<tabStates, fired, badge, active, open, startup, conc, nev>>
  /\ TripFollows

\* line 152, then back in onActivated: chrome.tabs.query (line 220) up to its await
Resume3(s) ==
  /\ hs[s].pc = "resume3"
  /\ lastPush' = Configure(hs[s].tab, Obj(hs[s]))
  /\ UNCHANGED <<probe, scrape, focused>>
  /\ SetH(s, [hs[s] EXCEPT !.pc = "act_loop", !.st = 0])
  /\ UNCHANGED <<tabStates, stored, alarms, fired, badge, active, open, startup, conc, nev>>
  /\ TripFollows

\* ------------------------------------------------------------ alarms
\* an alarm that is due fires: it leaves chrome.alarms and its onAlarm event is queued
AlarmFire(t) ==
  /\ alarms[t] # Null /\ alarms[t] <= Now
  /\ alarms' = [alarms EXCEPT ![t] = Null]
  /\ fired' = fired \cup {t}
  /\ lastPush' = NoPush
  /\ UNCHANGED <<probe, scrape, focused>>
  /\ UNCHANGED <<tabStates, det, stored, hs, badge, active, open, startup, conc, nev>>
  /\ TripFollows

\* onAlarm, lines 172-179: up to the await of chrome.tabs.reload
OnAlarm(t) ==
  /\ CanDispatch /\ t \in fired
  /\ fired' = fired \ {t}
  /\ tabStates' = ensureState(tabStates, t)
  /\ IF alarmSkips(View(t))
     THEN UNCHANGED <<hs, det>>
     ELSE SetH(FreeSlot, New("alarm", "alarm2", t))
  /\ lastPush' = NoPush
  /\ UNCHANGED <<probe, scrape, focused>>
  /\ UNCHANGED <<stored, alarms, badge, active, open, startup, conc, nev>>
  /\ TripFollows

\* lines 180-183: the reload was rejected; stopTab up to the await of clearReloadAlarm
Alarm2Fail(s) ==
  /\ hs[s].pc = "alarm2"
  /\ lastPush' = NoPush
  /\ UNCHANGED <<probe, scrape, focused>>
  /\ IF hs[s].tab \notin DOMAIN tabStates
     THEN SetH(s, Idle) /\ UNCHANGED <<tabStates, alarms>>
     ELSE /\ tabStates' = [tabStates EXCEPT ![hs[s].tab] = stopTabFields(tabStates[hs[s].tab])]
          /\ alarms' = clearReloadAlarm(alarms, hs[s].tab)
          /\ SetH(s, [hs[s] EXCEPT !.pc = "stop2", !.st = 0])
  /\ UNCHANGED <<stored, fired, badge, active, open, startup, conc, nev>>
  /\ TripFollows

\* lines 187-188: the reload succeeded (the tab exists)
Alarm2Ok(s) ==
  /\ hs[s].pc = "alarm2" /\ hs[s].tab \in open
  /\ LET r == alarmNextFields(Obj(hs[s]))
         ts2 == WriteMap(hs[s], r)
         hh == [hs EXCEPT ![s] = [hs[s] EXCEPT !.pc = "alarm3"]]
     IN  /\ tabStates' = ts2
         /\ stored' = saveStates(ts2)
         /\ hs' = hh
         /\ det' = Collect(hh, WriteDet(hs[s], r))
  /\ lastPush' = NoPush
  /\ UNCHANGED <<probe, scrape, focused>>
  /\ UNCHANGED <<alarms, fired, badge, active, open, startup, conc, nev>>
  /\ TripFollows

\* lines 189-191
Alarm3(s) ==
  /\ hs[s].pc = "alarm3"
  /\ alarms' = scheduleReload(alarms, hs[s].tab, Obj(hs[s]).intervalMs)
  /\ lastPush' = Configure(hs[s].tab, Obj(hs[s]))
  /\ UNCHANGED <<probe, scrape, focused>>
  /\ SetH(s, Idle)
  /\ UNCHANGED <<tabStates, stored, fired, badge, active, open, startup, conc, nev>>
  /\ TripFollows

\* ------------------------------------------------------------ onUpdated (status complete)
\* lines 195-203
NavComplete(t) ==
  /\ Counted
  /\ CanDispatch /\ t \in open
  /\ lastPush' = NoPush
  /\ UNCHANGED <<probe, scrape, focused>>
  /\ LET ts1 == ensureState(tabStates, t)
         ts2 == [ts1 EXCEPT ![t].nextReloadAt = Now + ts1[t].intervalMs]
     IN  IF navRearms(ts1[t])
         THEN /\ tabStates' = ts2
              /\ stored' = saveStates(ts2)
              /\ SetH(FreeSlot, New("nav", "nav2", t))
         ELSE /\ tabStates' = ts1
              /\ UNCHANGED <<stored, hs, det>>
  /\ UNCHANGED <<alarms, fired, badge, active, open, startup, conc>>
  /\ TripFollows

\* line 204
Nav2(s) ==
  /\ hs[s].pc = "nav2"
  /\ alarms' = clearReloadAlarm(alarms, hs[s].tab)
  /\ SetH(s, [hs[s] EXCEPT !.pc = "nav3"])
  /\ lastPush' = NoPush
  /\ UNCHANGED <<probe, scrape, focused>>
  /\ UNCHANGED <<tabStates, stored, fired, badge, active, open, startup, conc, nev>>
  /\ TripFollows

\* lines 205-206
Nav3(s) ==
  /\ hs[s].pc = "nav3"
  /\ alarms' = scheduleReload(alarms, hs[s].tab, Obj(hs[s]).intervalMs)
  /\ lastPush' = Configure(hs[s].tab, Obj(hs[s]))
  /\ UNCHANGED <<probe, scrape, focused>>
  /\ SetH(s, Idle)
  /\ UNCHANGED <<tabStates, stored, fired, badge, active, open, startup, conc, nev>>
  /\ TripFollows

\* ------------------------------------------------------------ onActivated
\* lines 211-220: setBadge(""), then resumeTab up to the await of clearReloadAlarm, or,
\* when resumeTab is not called or returns at once, chrome.tabs.query up to its await
TabActivated(t) ==
  /\ Counted
  /\ CanDispatch /\ t \in open /\ t # active
  /\ active' = t
  /\ badge' = ""
  /\ lastPush' = NoPush
  /\ UNCHANGED <<probe, scrape, focused>>
  /\ LET ts1 == ensureState(tabStates, t)
     IN  IF ts1[t].enabled /\ ts1[t].pauseWhenInactive /\ ~resumeTabSkips(ts1[t])
         THEN /\ tabStates' = [ts1 EXCEPT ![t] = resumeTabFields(ts1[t])]
              /\ alarms' = clearReloadAlarm(alarms, t)
              /\ SetH(FreeSlot, [New("act", "resume2", t) EXCEPT !.self = t,
                                                                 !.iv = resumeDelay(ts1[t])])
         ELSE /\ tabStates' = ts1
              /\ SetH(FreeSlot, [New("act", "act_loop", t) EXCEPT !.self = t])
              /\ UNCHANGED alarms
  /\ UNCHANGED <<stored, fired, open, startup, conc>>
  /\ TripFollows

\* lines 220-225: the query answers with the tabs of the window
ActLoop(s) ==
  /\ hs[s].pc = "act_loop"
  /\ lastPush' = NoPush
  /\ UNCHANGED <<probe, scrape, focused>>
  /\ LET r == pauseOthers(tabStates, SeqOf(open), hs[s].self)
     IN  /\ tabStates' = r.ts
         /\ IF r.hit = 0
            THEN SetH(s, Idle) /\ UNCHANGED alarms
            ELSE /\ alarms' = clearReloadAlarm(alarms, r.hit)
                 /\ SetH(s, [hs[s] EXCEPT !.pc = "pause2", !.tab = r.hit, !.todo = r.rest,
                                          !.ret = "act_next"])
  /\ UNCHANGED <<stored, fired, badge, active, open, startup, conc, nev>>
  /\ TripFollows

\* ------------------------------------------------------------ onFocusChanged(WINDOW_ID_NONE)
\* lines 229-231
WindowBlurred ==
  /\ Counted
  /\ CanDispatch
  /\ SetH(FreeSlot, New("blur", "blur2", 0))
  /\ focused' = FALSE
  /\ lastPush' = NoPush
  /\ UNCHANGED <<probe, scrape>>
  /\ UNCHANGED <<tabStates, stored, alarms, fired, badge, active, open, startup, conc>>
  /\ TripFollows

\* onFocusChanged with the id of a window: the user is back in the browser; line 230
\* returns at once
WindowFocused ==
  /\ Counted
  /\ CanDispatch
  /\ focused' = TRUE
  /\ lastPush' = NoPush
  /\ UNCHANGED <<probe, scrape>>
  /\ UNCHANGED <<tabStates, det, stored, alarms, fired, hs, badge, active, open, startup, conc>>
  /\ TripFollows

\* lines 232-235: pauseTab up to the await of clearReloadAlarm, or setBadge("")
Blur2(s) ==
  /\ hs[s].pc = "blur2"
  /\ lastPush' = NoPush
  /\ UNCHANGED <<probe, scrape, focused>>
  /\ IF active = 0
     THEN SetH(s, Idle) /\ UNCHANGED <<tabStates, alarms, badge>>
     ELSE LET ts1 == ensureState(tabStates, active)
          IN  IF ts1[active].enabled /\ ts1[active].pauseWhenInactive
                 /\ ~pauseTabSkips(ts1[active])
              THEN /\ tabStates' = [ts1 EXCEPT ![active] = pauseTabFields(ts1[active])]
                   /\ alarms' = clearReloadAlarm(alarms, active)
                   /\ SetH(s, [hs[s] EXCEPT !.pc = "pause2", !.tab = active, !.ret = "blur_end"])
                   /\ UNCHANGED badge
              ELSE /\ tabStates' = ts1
                   /\ badge' = ""
                   /\ SetH(s, Idle)
                   /\ UNCHANGED alarms
  /\ UNCHANGED <<stored, fired, active, open, startup, conc, nev>>
  /\ TripFollows

\* ------------------------------------------------------------ onRemoved
\* lines 239-245: the entry is deleted and saveStates awaited, or, with no entry,
\* clearReloadAlarm is all there is
TabRemoved(t) ==
  /\ Counted
  /\ CanDispatch /\ t \in open
  /\ open' = open \ {t}
  /\ active' = IF active = t THEN 0 ELSE active
  /\ lastPush' = NoPush
  /\ UNCHANGED <<probe, scrape, focused>>
  /\ IF t \in DOMAIN tabStates
     THEN LET ts2 == deleteEntry(tabStates, t)
              d == Detach(hs, det, tabStates, {t})
              hh == [d.hs EXCEPT ![FreeSlot] = New("rm", "rm2", t)]
          IN  /\ tabStates' = ts2
              /\ stored' = saveStates(ts2)
              /\ hs' = hh
              /\ det' = Collect(hh, d.det)
              /\ UNCHANGED alarms
     ELSE /\ alarms' = clearReloadAlarm(alarms, t)
          /\ UNCHANGED <<tabStates, stored, hs, det>>
  /\ UNCHANGED <<fired, badge, startup, conc>>
  /\ TripFollows

\* line 245
Rm2(s) ==
  /\ hs[s].pc = "rm2"
  /\ alarms' = clearReloadAlarm(alarms, hs[s].tab)
  /\ SetH(s, Idle)
  /\ lastPush' = NoPush
  /\ UNCHANGED <<probe, scrape, focused>>
  /\ UNCHANGED <<tabStates, stored, fired, badge, active, open, startup, conc, nev>>
  /\ TripFollows

\* ------------------------------------------------------------ GET_STATE
\* lines 263-267
GetStateMsg(t) ==
  /\ Counted
  /\ CanDispatch
  /\ tabStates' = ensureState(tabStates, t)
  /\ lastPush' = NoPush
  /\ UNCHANGED <<probe, scrape, focused>>
  /\ UNCHANGED <<det, stored, alarms, fired, hs, badge, active, open, startup, conc>>
  /\ TripFollows

\* ------------------------------------------------------------ TICK
\* line 275 without the test of paused
tickSkipsUnlessPaused(st) == ~st.enabled \/ ~st.badgeCountdown

\* TICK, line 275: the early return
tickSkips(st) == ~st.enabled \/ st.paused \/ ~st.badgeCountdown

\* lines 270-277: up to the await of getActiveTabId; iv holds msg.remainingMs
TickMsg(t, ms) ==
  /\ Counted
  /\ CanDispatch /\ t \in open
  /\ tabStates' = ensureState(tabStates, t)
  /\ IF tickSkips(View(t))
     THEN UNCHANGED <<hs, det>>
     ELSE SetH(FreeSlot, [New("tick", "tick2", t) EXCEPT !.iv = ms])
  /\ lastPush' = NoPush
  /\ UNCHANGED <<probe, scrape, focused>>
  /\ UNCHANGED <<stored, alarms, fired, badge, active, open, startup, conc>>
  /\ TripFollows

\* lines 278-280
Tick2(s) ==
  /\ hs[s].pc = "tick2"
  /\ badge' = IF active = hs[s].tab THEN formatMMSS(hs[s].iv) ELSE badge
  /\ SetH(s, Idle)
  /\ lastPush' = NoPush
  /\ UNCHANGED <<probe, scrape, focused>>
  /\ UNCHANGED <<tabStates, stored, alarms, fired, active, open, startup, conc, nev>>
  /\ TripFollows

\* ------------------------------------------------------------ CS_READY
\* line 289 with the test of enabled alone
probeConfiguresEnabled(st) == st.enabled

\* CS_READY, line 289: whether CONFIGURE is the answer
probeConfigures(st) == st.enabled /\ ~st.paused /\ st.nextReloadAt # Null

\* lines 285-295
ProbeReady(t) ==
  /\ Counted
  /\ CanDispatch /\ t \in open
  /\ tabStates' = ensureState(tabStates, t)
  /\ lastPush' = IF probeConfigures(View(t)) THEN Configure(t, View(t)) ELSE DisableMsg(t)
  /\ UNCHANGED <<probe, scrape, focused>>
  /\ UNCHANGED <<det, stored, alarms, fired, hs, badge, active, open, startup, conc>>
  /\ TripFollows

\* ------------------------------------------------------------ boot and rehydration
\* the handler of line 169 (and of onStartup, line 165): loadStates up to its await
Loader == New("load", "load2", 0)

\* the idle service worker is shut down and started again by the next event: the
\* module is evaluated anew (line 12: tabStates = {}; line 169: loadStates()).  After a
\* browser restart onStartup is pending; a browser restart or an update of the
\* extension may clear the alarms (lost).
Restart(browser, lost) ==
  /\ Counted
  /\ NoneInFlight
  /\ tabStates' = EmptyMap
  /\ det' = EmptyMap
  /\ hs' = [s \in Slots |-> IF s = 1 THEN Loader ELSE Idle]
  /\ alarms' = IF lost THEN NoAlarms ELSE alarms
  /\ startup' = (startup \/ browser)
  /\ lastPush' = NoPush
  /\ UNCHANGED <<probe, scrape, focused>>
  /\ UNCHANGED <<stored, fired, badge, active, open, conc>>
  /\ TripFollows

\* onStartup, lines 164-166
OnStartup ==
  /\ Counted
  /\ CanDispatch /\ startup
  /\ startup' = FALSE
  /\ SetH(FreeSlot, Loader)
  /\ lastPush' = NoPush
  /\ UNCHANGED <<probe, scrape, focused>>
  /\ UNCHANGED <<tabStates, stored, alarms, fired, badge, active, open, conc>>
  /\ TripFollows

\* loadStates, line 32: the map is replaced by the stored one
Load2(s) ==
  /\ hs[s].pc = "load2"
  /\ LET d == Detach(hs, det, tabStates, DOMAIN tabStates)
         hh == [d.hs EXCEPT ![s] = Idle]
     IN  /\ tabStates' = stored
         /\ hs' = hh
         /\ det' = Collect(hh, d.det)
  /\ lastPush' = NoPush
  /\ UNCHANGED <<probe, scrape, focused>>
  /\ UNCHANGED <<stored, alarms, fired, badge, active, open, startup, conc, nev>>
  /\ TripFollows

\* ------------------------------------------------------------ time
Age(x) == IF x = Null THEN Null ELSE Max(0, x - TimeStep)
AgeState(st) == [st EXCEPT !.nextReloadAt = Age(@)]
AgeMap(m) == [k \in DOMAIN m |-> AgeState(m[k])]

\* TimeStep milliseconds pass; a handler's awaits and the delivery of a fired alarm
\* take less than that
Tick ==
  /\ NoneInFlight /\ fired = {}
  /\ tabStates' = AgeMap(tabStates)
  /\ det' = AgeMap(det)
  /\ stored' = AgeMap(stored)
  /\ alarms' = [t \in Tabs |-> Age(alarms[t])]
  /\ hs' = [s \in Slots |-> [hs[s] EXCEPT !.exp = Age(@)]]
  /\ lastPush' = NoPush
  /\ UNCHANGED <<probe, scrape, focused>>
  /\ UNCHANGED <<fired, badge, active, open, startup, conc, nev>>
  /\ trip' = [t \in Tabs |-> [trip[t] EXCEPT !.due = Age(@),
                                               !.waited = @ \/ trip[t].ph = "paused"]]

\* ------------------------------------------------------------ the content script
\* One page and its content script.  nextReloadAt and now are epoch milliseconds of the
\* page's own clock; tickTimer is 0 for null; live holds the ids of the interval timers
\* of the page that are not cleared; ids is the latest id setInterval returned.
cvars == <<tabStates, det, stored, alarms, fired, hs, lastPush, badge, active, open, startup,
          conc, nev, trip, focused>>

\* what a step of the content script sent with chrome.runtime.sendMessage
NoMsg == [type |-> "none", remainingMs |-> Null]
TickOut(ms) == [type |-> "TICK", remainingMs |-> ms]
ReadyMsg == [type |-> "CS_READY", remainingMs |-> Null]

\* lines 5-8 of the content script; runs: the script was evaluated in the page;
\* quiet: the latest message was PAUSE, DISABLE or a CONFIGURE without enabled, or
\* none came yet (read by the properties only)
NoProbe ==
  [runs |-> FALSE, enabled |-> FALSE, badgeCountdown |-> TRUE, nextReloadAt |-> Null,
   tickTimer |-> 0, live |-> {}, ids |-> 0, now |-> TickPeriodMs, sent |-> NoMsg,
   quiet |-> TRUE]

\* the CONFIGURE messages a page is sent: enabled, badgeCountdown ("undefined" when the
\* field is absent) and nextReloadAt (Null when it is not a number)
ConfigureInputs ==
  {<<en, bc, n>> : en \in BOOLEAN, bc \in {"true", "false", "undefined"},
                   n \in {Null, 0, 2 * TickPeriodMs + TickPeriodMs \div 2, 3 * TickPeriodMs}}

\* !x for a number or null
Falsy(x) == x = Null \/ x = 0

\* stopTicking()
stopTicking(p) ==
  [p EXCEPT !.live = IF p.tickTimer # 0 THEN @ \ {p.tickTimer} ELSE @, !.tickTimer = 0]

\* a startTicking() that does not call stopTicking() first
startTickingKeepsTimer(p) ==
  LET id == p.ids + 1
  IN  [p EXCEPT !.ids = id, !.tickTimer = id, !.live = @ \cup {id}]

\* startTicking(): stopTicking(), then setInterval
startTicking(p) ==
  LET q == stopTicking(p)
      id == q.ids + 1
  IN  [q EXCEPT !.ids = id, !.tickTimer = id, !.live = @ \cup {id}]

\* the page is loaded or reloaded: its timers die with the old document and the content
\* script is evaluated anew; its last statement sends CS_READY.  ok: the script parsed
\* (content.js lines 140-142 have an else without its if: that file does not parse, and
\* the page then has no listener and no timer).
ProbeLoad(ok) ==
  /\ probe' = [NoProbe EXCEPT !.runs = ok, !.ids = probe.ids, !.now = probe.now,
                              !.sent = IF ok THEN ReadyMsg ELSE NoMsg]
  /\ UNCHANGED <<cvars, scrape>>

\* onMessage, CONFIGURE
ProbeConfigure(en, bc, n) ==
  /\ probe.runs
  /\ en => probe.ids < MaxTimers
  /\ LET p1 == [probe EXCEPT !.enabled = en, !.badgeCountdown = (bc # "false"),
                             !.nextReloadAt = n, !.sent = NoMsg, !.quiet = ~en]
     IN  probe' = IF en THEN startTicking(p1) ELSE stopTicking(p1)
  /\ UNCHANGED <<cvars, scrape>>

\* onMessage, PAUSE
ProbePause ==
  /\ probe.runs
  /\ probe' = stopTicking([probe EXCEPT !.sent = NoMsg, !.quiet = TRUE])
  /\ UNCHANGED <<cvars, scrape>>

\* onMessage, DISABLE
ProbeDisable ==
  /\ probe.runs
  /\ probe' = stopTicking([probe EXCEPT !.enabled = FALSE, !.nextReloadAt = Null,
                                        !.sent = NoMsg, !.quiet = TRUE])
  /\ UNCHANGED <<cvars, scrape>>

\* the callback of interval timer id
TimerFire(id) ==
  /\ id \in probe.live
  /\ probe' = [probe EXCEPT !.sent =
                 IF ~probe.enabled \/ ~probe.badgeCountdown \/ Falsy(probe.nextReloadAt)
                 THEN NoMsg
                 ELSE TickOut(Max(0, probe.nextReloadAt - probe.now))]
  /\ UNCHANGED <<cvars, scrape>>

\* a second passes on the page's clock
ProbeClock ==
  /\ probe.now < TickPeriodMs * (1 + MaxProbeSeconds)
  /\ probe' = [probe EXCEPT !.now = @ + TickPeriodMs, !.sent = NoMsg]
  /\ UNCHANGED <<cvars, scrape>>

\* ------------------------------------------------------------ the lead detection
\* waitForLeadsAndLogNew of the content script of each page.  seen is
\* chrome.storage.local[HIPAGES_SEEN_KEY], a map from lead id to the Date.now() of its
\* first sight; the extraction loop of lines 96-100 is its last result, a set of ids
\* (uniqById leaves one lead per id).
EmptySeen == [i \in {} |-> 0]
NoLog == [type |-> "none", ids |-> {}, by |-> 0]
\* a page before waitForLeadsAndLogNew is called; got: what loadSeenLeadIds returned
NoPage == [onSite |-> FALSE, ran |-> FALSE, pc |-> "idle", leads |-> {}, got |-> EmptySeen]
\* marked: the ids some run wrote into its seen object; told: the ids some run logged
\* as new; lastDone: the leads of the latest run that got to its diff, {} when none did
\* (the three are read by the properties only)
NoScrape ==
  [seen |-> EmptySeen, now |-> 1, runs |-> 0, page |-> [p \in Pages |-> NoPage],
   log |-> NoLog, marked |-> {}, told |-> {}, lastDone |-> {}]

\* seen[l.id] is truthy
IsSeen(seen, id) == id \in DOMAIN seen /\ seen[id] # 0

\* a diff that takes every lead for new
newLeadsAll(leads, seen) == leads

\* line 108: leads.filter(l => !seen[l.id])
newLeads(leads, seen) == {l \in leads : ~IsSeen(seen, l)}

\* line 113: for (const l of newLeads) seen[l.id] = Date.now()
markSeen(seen, new, now) ==
  [i \in DOMAIN seen \cup new |-> IF i \in new THEN now ELSE seen[i]]

\* saveSeenLeadIds(seen): chrome.storage.local.set, the whole map
saveSeenLeadIds(seen) == seen

RunInFlight == \E p \in Pages : scrape.page[p].pc # "idle"

\* the page is loaded or reloaded: a new document and a new content script, whose run
\* of the old document, if one was suspended, never resumes; onSite: isHiPagesLeadsContext()
PageLoad(p, onSite) ==
  /\ scrape' = [scrape EXCEPT !.page[p] = [NoPage EXCEPT !.onSite = onSite], !.log = NoLog]
  /\ UNCHANGED <<cvars, probe>>

\* waitForLeadsAndLogNew is called (the timeout of CONFIGURE), lines 88-107: the two
\* early returns, the extraction with result L, and loadSeenLeadIds up to its await
ScrapeStart(p, L) ==
  /\ scrape.runs < MaxScrapeRuns
  /\ scrape.page[p].pc = "idle"
  /\ LET pg == scrape.page[p]
     IN  scrape' =
           IF ~pg.onSite \/ pg.ran
           THEN [scrape EXCEPT !.runs = @ + 1, !.log = NoLog]
           ELSE IF L = {}
           THEN [scrape EXCEPT !.runs = @ + 1, !.page[p].ran = TRUE,
                               !.log = [type |-> "noLeads", ids |-> {}, by |-> p]]
           ELSE [scrape EXCEPT !.runs = @ + 1, !.page[p].ran = TRUE, !.page[p].pc = "get",
                               !.page[p].leads = L, !.log = NoLog]
  /\ UNCHANGED <<cvars, probe>>

\* the same when no run of another page is in flight
ScrapeStartAlone(p, L) == ~RunInFlight /\ ScrapeStart(p, L)

\* chrome.storage.local.get of loadSeenLeadIds (line 79) reads the store
ScrapeRead(p) ==
  /\ scrape.page[p].pc = "get"
  /\ scrape' = [scrape EXCEPT !.page[p].pc = "got", !.page[p].got = scrape.seen,
                              !.log = NoLog]
  /\ UNCHANGED <<cvars, probe>>

\* lines 108-117: the diff, the log, the marks and saveSeenLeadIds
ScrapeDiff(p) ==
  /\ scrape.page[p].pc = "got"
  /\ LET pg == scrape.page[p]
         new == newLeads(pg.leads, pg.got)
     IN  scrape' =
           IF new # {}
           THEN [scrape EXCEPT !.page[p].pc = "idle",
                               !.seen = saveSeenLeadIds(markSeen(pg.got, new, scrape.now)),
                               !.log = [type |-> "new", ids |-> new, by |-> p],
                               !.marked = @ \cup new, !.told = @ \cup new,
                               !.lastDone = pg.leads]
           ELSE [scrape EXCEPT !.page[p].pc = "idle",
                               !.log = [type |-> "noNew", ids |-> {}, by |-> p],
                               !.lastDone = pg.leads]
  /\ UNCHANGED <<cvars, probe>>

\* Date.now() advances
ScrapeClock ==
  /\ scrape.now < MaxScrapeTime
  /\ scrape' = [scrape EXCEPT !.now = @ + 1, !.log = NoLog]
  /\ UNCHANGED <<cvars, probe>>

\* ------------------------------------------------------------ specification
InitWith(c) ==
  /\ tabStates = EmptyMap
  /\ det = EmptyMap
  /\ stored = EmptyMap
  /\ alarms = NoAlarms
  /\ fired = {}
  /\ hs = [s \in Slots |-> IF s = 1 THEN Loader ELSE Idle]
  /\ lastPush = NoPush
  /\ badge = ""
  /\ active \in Tabs
  /\ open = Tabs
  /\ startup = FALSE
  /\ focused = TRUE
  /\ conc = c
  /\ nev = 0
  /\ trip = [t \in Tabs |-> NoTrip]
  /\ probe = NoProbe
  /\ scrape = NoScrape

\* a suspended listener goes on
ListenerStep(s) ==
  \/ Start2(s) \/ Start3(s) \/ Start4(s)
  \/ Stop2(s) \/ Stop3(s) \/ Stop4(s)
  \/ Pause2(s) \/ Pause3(s) \/ Pause4(s)
  \/ Resume2(s) \/ Resume3(s)
  \/ Alarm2Fail(s) \/ Alarm2Ok(s) \/ Alarm3(s)
  \/ Nav2(s) \/ Nav3(s)
  \/ ActLoop(s) \/ Blur2(s) \/ Rm2(s) \/ Tick2(s)

Step(s) == ListenerStep(s) \/ Load2(s)

\* an event of a tab, a window, a message or an alarm
TabEvent ==
  \/ \E t \in Tabs : \E in \in StartInputs(t) : StartTabMsg(t, in[1], in[2])
  \/ \E t \in Tabs : StopTabMsg(t)
  \/ \E t \in Tabs : GetStateMsg(t)
  \/ \E t \in Tabs : \E ms \in TickInputs : TickMsg(t, ms)
  \/ \E t \in Tabs : ProbeReady(t)
  \/ \E t \in Tabs : OnAlarm(t)
  \/ \E t \in Tabs : NavComplete(t)
  \/ \E t \in Tabs : TabActivated(t)
  \/ \E t \in Tabs : TabRemoved(t)
  \/ WindowBlurred
  \/ WindowFocused

Event == TabEvent \/ OnStartup

Env ==
  \/ \E t \in Tabs : AlarmFire(t)
  \/ \E b \in BOOLEAN, l \in BOOLEAN : Restart(b, l)
  \/ Tick

Next == (\E s \in Slots : Step(s)) \/ Event \/ Env

\* handlers run one at a time, each to its end
Init == InitWith(1)
Spec == Init /\ [][Next]_vars

\* up to MaxInFlight handlers are in flight and their steps interleave
InitConc == InitWith(MaxInFlight)
SpecConc == InitConc /\ [][Next]_vars

\* Spec with what the runtime guarantees: a suspended handler is resumed, a due alarm
\* fires, its event is delivered, and time goes on
Fairness ==
  /\ \A s \in Slots : WF_vars(Step(s))
  /\ \A t \in Tabs : WF_vars(AlarmFire(t)) /\ WF_vars(OnAlarm(t))
  /\ WF_vars(Tick)

\* the environment when no restart clears the alarms
EnvKept ==
  \/ \E t \in Tabs : AlarmFire(t)
  \/ \E b \in BOOLEAN : Restart(b, FALSE)
  \/ Tick

NextKept == (\E s \in Slots : Step(s)) \/ Event \/ EnvKept

\* SpecConc where chrome.alarms keeps every alarm across restarts, with Fairness
SpecLive == InitConc /\ [][NextKept]_vars /\ Fairness

\* the same with handlers run one at a time
SpecLiveSeq == Init /\ [][NextKept]_vars /\ Fairness

\* the service worker after its boot load, with no restart: nothing but the events of
\* the tabs, their alarms and time
InitLoaded ==
  /\ tabStates = EmptyMap
  /\ det = EmptyMap
  /\ stored = EmptyMap
  /\ alarms = NoAlarms
  /\ fired = {}
  /\ hs = [s \in Slots |-> Idle]
  /\ lastPush = NoPush
  /\ badge = ""
  /\ active \in Tabs
  /\ open = Tabs
  /\ startup = FALSE
  /\ focused = TRUE
  /\ conc = MaxInFlight
  /\ nev = 0
  /\ trip = [t \in Tabs |-> NoTrip]
  /\ probe = NoProbe
  /\ scrape = NoScrape

NextLoaded ==
  \/ \E s \in Slots : ListenerStep(s)
  \/ TabEvent
  \/ \E t \in Tabs : AlarmFire(t)
  \/ Tick

\* handlers interleave; no boot load is pending and the worker is never restarted
SpecLoaded == InitLoaded /\ [][NextLoaded]_vars

\* the content script of one page, whatever messages it is sent
NextProbe ==
  \/ \E ok \in BOOLEAN : ProbeLoad(ok)
  \/ \E in \in ConfigureInputs : ProbeConfigure(in[1], in[2], in[3])
  \/ ProbePause
  \/ ProbeDisable
  \/ \E id \in 1..MaxTimers : TimerFire(id)
  \/ ProbeClock

SpecProbe == Init /\ [][NextProbe]_vars

\* the lead detection, one run at a time
NextScrape ==
  \/ \E p \in Pages, onSite \in BOOLEAN : PageLoad(p, onSite)
  \/ \E p \in Pages, L \in SUBSET LeadIds : ScrapeStartAlone(p, L)
  \/ \E p \in Pages : ScrapeRead(p)
  \/ \E p \in Pages : ScrapeDiff(p)
  \/ ScrapeClock

SpecScrape == Init /\ [][NextScrape]_vars

\* the lead detection, the runs of the pages interleaved
NextScrapeConc ==
  \/ \E p \in Pages, onSite \in BOOLEAN : PageLoad(p, onSite)
  \/ \E p \in Pages, L \in SUBSET LeadIds : ScrapeStart(p, L)
  \/ \E p \in Pages : ScrapeRead(p)
  \/ \E p \in Pages : ScrapeDiff(p)
  \/ ScrapeClock

SpecScrapeConc == Init /\ [][NextScrapeConc]_vars

\* ============================================================ the claims
Entries == DOMAIN tabStates
One(b) == IF b THEN 1 ELSE 0
\* the three states of the spec's state machine
Disabled(st) == ~st.enabled /\ ~st.paused /\ st.remainingMs = Null /\ st.nextReloadAt = Null
Scheduled(st) == st.enabled /\ ~st.paused /\ st.remainingMs = Null /\ st.nextReloadAt # Null
Paused(st) == st.enabled /\ st.paused /\ st.remainingMs # Null /\ st.nextReloadAt = Null
InFlight(op, pc, t) == \E s \in Slots : hs[s].op = op /\ hs[s].pc = pc /\ hs[s].tab = t

\* C1: in every reachable state every tab that has an entry satisfies exactly one of
\* enabled = false, paused = true, nextReloadAt # null, and remainingMs # null exactly
\* when paused = true.
C1_StateExclusivity ==
  \A t \in Entries :
    /\ One(~tabStates[t].enabled) + One(tabStates[t].paused)
         + One(tabStates[t].nextReloadAt # Null) = 1
    /\ (tabStates[t].remainingMs # Null) <=> tabStates[t].paused

\* ------------------------------------------------------------ C2
\* what start(t, intervalMs, o) must leave in the tab's entry, whatever was there
StartedState(intervalMs, o) ==
  [enabled |-> TRUE, intervalMs |-> intervalMs,
   autoStart |-> IF "autoStart" \in DOMAIN o THEN o.autoStart ELSE TRUE,
   pauseWhenInactive |-> IF "pauseWhenInactive" \in DOMAIN o THEN o.pauseWhenInactive ELSE TRUE,
   badgeCountdown |-> IF "badgeCountdown" \in DOMAIN o THEN o.badgeCountdown ELSE TRUE,
   paused |-> FALSE, remainingMs |-> Null, nextReloadAt |-> Now + intervalMs]

C2_Dispatch ==
  \A t \in Tabs : \A in \in StartInputs(t) :
    StartTabMsg(t, in[1], in[2]) =>
      /\ t \in Entries' /\ tabStates'[t] = StartedState(in[1], in[2])
      /\ alarms'[t] = Null
      /\ InFlight("start", "start2", t)'

C2_Steps ==
  \A s \in Slots : hs[s].op = "start" =>
    LET t == hs[s].tab IN
    /\ Start2(s) => /\ alarms'[t] # Null
                    /\ tabStates' = tabStates /\ stored' = tabStates
                    /\ \A u \in Tabs \ {t} : alarms'[u] = alarms[u]
    /\ Start3(s) => /\ lastPush' = [type |-> "CONFIGURE", tab |-> t,
                                    badgeCountdown |-> tabStates[t].badgeCountdown,
                                    nextReloadAt |-> hs[s].exp]
                    /\ tabStates' = tabStates /\ alarms' = alarms
    /\ Start4(s) => /\ tabStates' = tabStates /\ alarms' = alarms
                    /\ Scheduled(tabStates'[t]) /\ tabStates'[t].nextReloadAt = hs[s].exp
                    /\ tabStates'[t].intervalMs = hs[s].iv
                    /\ alarms'[t] # Null /\ stored'[t] = tabStates'[t]

\* C2: start(tabId, intervalMs, opts) at t0, from any prior state, leaves the tab
\* enabled, not paused, remainingMs null, nextReloadAt = t0 + intervalMs, the three
\* options as given (true when omitted), one pending alarm that replaced the earlier
\* one, and has pushed a CONFIGURE carrying that nextReloadAt.
C2_Start == [][C2_Dispatch /\ C2_Steps]_vars

\* startTab, called with pauseWhenInactive: false, has run to its last await: CONFIGURE is out
C2_Witness ==
  \E s \in Slots :
    /\ hs[s].op = "start" /\ hs[s].pc = "start4"
    /\ lastPush.type = "CONFIGURE" /\ lastPush.nextReloadAt = hs[s].exp
    /\ Scheduled(tabStates[hs[s].tab]) /\ alarms[hs[s].tab] # Null
    /\ ~tabStates[hs[s].tab].pauseWhenInactive

\* ------------------------------------------------------------ C3
\* C3: stop(tabId) from any state, also for a tab with no entry in the in-memory map,
\* leaves the tab Disabled with no pending alarm and pushes DISABLE: the dispatch step
\* leaves the Disabled fields and no alarm and goes on to the push, which is a DISABLE.
C3_Stop ==
  [][ /\ \A t \in Tabs :
           StopTabMsg(t) => /\ Disabled(View(t)')
                            /\ alarms'[t] = Null
                            /\ InFlight("stop", "stop2", t)'
      /\ \A s \in Slots :
           (hs[s].op = "stop" /\ Stop3(s)) => lastPush' = DisableMsg(hs[s].tab) ]_vars

\* ------------------------------------------------------------ C4
PauseCond(st) == st.enabled /\ ~st.paused /\ st.pauseWhenInactive
\* the entry a pause at this instant must leave
PausedFrom(st) ==
  [st EXCEPT !.paused = TRUE,
             !.remainingMs = IF st.nextReloadAt # Null THEN Max(0, st.nextReloadAt - Now)
                             ELSE st.intervalMs,
             !.nextReloadAt = Null]

\* onFocusChanged pauses the active tab
C4_Blur ==
  \A s \in Slots : (Blur2(s) /\ active # 0) =>
    /\ IF PauseCond(View(active))
       THEN /\ View(active)' = PausedFrom(View(active))
            /\ alarms'[active] = Null
            /\ hs'[s].pc = "pause2" /\ hs'[s].tab = active
       ELSE /\ View(active)' = View(active)
            /\ alarms'[active] = alarms[active]
            /\ hs'[s] = Idle
    /\ lastPush' = NoPush
    /\ \A u \in Tabs \ {active} : View(u)' = View(u) /\ alarms'[u] = alarms[u]

\* onActivated pauses the other tabs, one pauseTab at a time
C4_Loop ==
  \A s \in Slots : (ActLoop(s) \/ (Pause4(s) /\ hs[s].ret = "act_next")) =>
    /\ lastPush' = NoPush
    /\ \A u \in Tabs :
         IF View(u)' # View(u)
         THEN /\ PauseCond(View(u)) /\ u # hs[s].self
              /\ View(u)' = PausedFrom(View(u))
              /\ alarms'[u] = Null
              /\ hs'[s].pc = "pause2" /\ hs'[s].tab = u
         ELSE alarms'[u] = alarms[u]

\* the rest of pauseTab: persist, then push PAUSE
C4_Push ==
  \A s \in Slots :
    /\ Pause2(s) => stored' = tabStates /\ tabStates' = tabStates /\ alarms' = alarms
    /\ Pause3(s) => /\ lastPush' = [type |-> "PAUSE", tab |-> hs[s].tab,
                                    badgeCountdown |-> FALSE, nextReloadAt |-> Null]
                    /\ tabStates' = tabStates /\ alarms' = alarms
                    /\ Paused(tabStates[hs[s].tab]) /\ alarms[hs[s].tab] = Null

\* C4: pause(tabId) at time t takes effect only when enabled, not paused and
\* pauseWhenInactive: then paused = true, remainingMs = max(0, nextReloadAt - t) (intervalMs
\* when nextReloadAt is null), nextReloadAt = null, the alarm is canceled and PAUSE is
\* pushed; otherwise neither the entry, nor the alarm, nor the probe is touched.
C4_Pause == [][C4_Blur /\ C4_Loop /\ C4_Push]_vars

\* pauseTab has pushed PAUSE for a tab that had used up part of its interval
C4_Witness ==
  \E s \in Slots :
    /\ hs[s].pc = "pause4" /\ lastPush = PauseMsg(hs[s].tab)
    /\ Paused(tabStates[hs[s].tab]) /\ alarms[hs[s].tab] = Null
    /\ tabStates[hs[s].tab].remainingMs < tabStates[hs[s].tab].intervalMs

\* ------------------------------------------------------------ C5
\* the entry a resume at this instant must leave
ResumedFrom(st) ==
  [st EXCEPT !.paused = FALSE,
             !.nextReloadAt = Now + (IF st.remainingMs # Null THEN st.remainingMs
                                     ELSE st.intervalMs),
             !.remainingMs = Null]

\* resumeTab is called by onActivated for the tab that became active
C5_Dispatch ==
  \A t \in Tabs : TabActivated(t) =>
    IF View(t).enabled /\ View(t).paused
    THEN /\ View(t)' = ResumedFrom(View(t))
         /\ alarms'[t] = Null
         /\ InFlight("act", "resume2", t)'
    ELSE /\ View(t)' = View(t)
         /\ alarms' = alarms
         /\ ~InFlight("act", "resume2", t)'

\* the rest of resumeTab; the alarm is created at the instant nextReloadAt was set, so
\* nextReloadAt - Now is the delay
C5_Steps(clamped) ==
  \A s \in Slots :
    LET t == hs[s].tab IN
    /\ Resume2(s) => /\ alarms'[t] = IF clamped
                                     THEN Now + Max(MinDelayMs, tabStates[t].nextReloadAt - Now)
                                     ELSE tabStates[t].nextReloadAt
                     /\ stored' = tabStates /\ tabStates' = tabStates
    /\ Resume3(s) => /\ lastPush' = [type |-> "CONFIGURE", tab |-> t,
                                     badgeCountdown |-> tabStates[t].badgeCountdown,
                                     nextReloadAt |-> tabStates[t].nextReloadAt]
                     /\ Scheduled(tabStates[t]) /\ alarms[t] # Null
                     /\ tabStates' = tabStates /\ alarms' = alarms

\* C5 as claimed: resume(tabId) at time t takes effect only when enabled and paused:
\* paused = false, nextReloadAt = t + delay with delay = remainingMs ?? intervalMs,
\* remainingMs = null, the alarm is recreated for that same delay and CONFIGURE is pushed;
\* otherwise neither the entry nor the alarm changes.
C5_ResumeClaim == [][C5_Dispatch /\ C5_Steps(FALSE)]_vars

\* C5 as amended: the same, but the alarm is recreated for max(1000, delay): a delay
\* under one second is clamped, and the alarm is then due after nextReloadAt.
C5_Resume == [][C5_Dispatch /\ C5_Steps(TRUE)]_vars

\* resumeTab has recreated the alarm of a tab with less than a second left: the alarm
\* is due after nextReloadAt
C5_Witness ==
  \E s \in Slots :
    /\ hs[s].op = "act" /\ hs[s].pc = "resume3"
    /\ Scheduled(tabStates[hs[s].tab])
    /\ tabStates[hs[s].tab].nextReloadAt < MinDelayMs
    /\ alarms[hs[s].tab] = MinDelayMs

\* ------------------------------------------------------------ C6
\* C6: after start at t0, pause at t1 and resume at t2 of a tab, with no other change
\* of that tab in between, the paused tab holds remainingMs = max(0, (t0 + intervalMs) - t1)
\* and the resumed tab nextReloadAt = t2 + that remainder, which is at most intervalMs
\* past the resume; the time spent paused does not enter.
C6_RoundTrip ==
  \A t \in Tabs :
    /\ trip[t].ph = "paused" =>
         /\ t \in Entries /\ Paused(tabStates[t])
         /\ tabStates[t].remainingMs = trip[t].left
    /\ trip[t].ph = "resumed" =>
         /\ t \in Entries /\ Scheduled(tabStates[t])
         /\ tabStates[t].nextReloadAt = trip[t].due
         /\ trip[t].left <= tabStates[t].intervalMs
         /\ tabStates[t].nextReloadAt <= Now + tabStates[t].intervalMs

\* a tab was started, paused after some of its interval had passed, stayed paused for a
\* while and has been resumed
C6_Witness ==
  \E t \in Tabs :
    /\ trip[t].ph = "resumed" /\ trip[t].waited
    /\ 0 < trip[t].left /\ trip[t].left < tabStates[t].intervalMs
    /\ tabStates[t].nextReloadAt = Now + trip[t].left

\* ------------------------------------------------------------ C7
\* C7: the onAlarm listener, run for a tab that is paused or not enabled, does nothing:
\* no handler goes on to the reload, the TabState of every tab (the defaults for a tab
\* without an entry), the stored map and every alarm are unchanged and nothing is pushed.
C7_StaleFire ==
  [][\A t \in Tabs :
       (OnAlarm(t) /\ (View(t).paused \/ ~View(t).enabled)) =>
         /\ hs' = hs
         /\ \A u \in Tabs : View(u)' = View(u)
         /\ Entries \subseteq Entries'
         /\ stored' = stored
         /\ alarms' = alarms
         /\ lastPush' = NoPush]_vars

\* an alarm has fired and, before its listener ran, its tab was paused or stopped: the
\* listener is about to run on a tab that is no longer scheduled
C7_Witness ==
  \E t \in Tabs, u \in Tabs :
    /\ NoneInFlight
    /\ t \in fired /\ t \in Entries /\ Paused(tabStates[t])
    /\ u \in fired /\ u \in Entries /\ Disabled(tabStates[u])

\* ------------------------------------------------------------ C8
\* the other tabs keep their TabState and their alarm in this step
OthersKept(T) == \A u \in Tabs \ {T} : View(u)' = View(u) /\ alarms'[u] = alarms[u]

\* the catch branch: the step in which the reload is rejected
C8_Catch ==
  \A s \in Slots : Alarm2Fail(s) =>
    LET T == hs[s].tab IN
    /\ View(T).enabled /\ ~View(T).paused
    /\ T \in Entries' /\ Disabled(tabStates'[T])
    /\ alarms'[T] = Null /\ T \notin fired'
    /\ hs'[s].op = "alarm" /\ hs'[s].pc = "stop2" /\ hs'[s].tab = T
    /\ OthersKept(T)

\* the rest of stopTab, called from the catch branch
C8_Steps ==
  \A s \in Slots : (hs[s].op = "alarm" /\ (Stop2(s) \/ Stop3(s) \/ Stop4(s))) =>
    LET T == hs[s].tab IN
    /\ T \in Entries' /\ Disabled(tabStates'[T])
    /\ alarms'[T] = Null /\ T \notin fired'
    /\ OthersKept(T)
    /\ Stop2(s) => stored' = tabStates
    /\ Stop3(s) => lastPush' = DisableMsg(T)
    /\ hs'[s].pc \in {"stop3", "stop4", "idle"}
    /\ \A r \in Slots \ {s} : hs'[r] = hs[r]

\* C8: when the reload of tab T, attempted by the onAlarm listener for an enabled and
\* not paused T, is rejected, T becomes Disabled with no alarm, the map is saved, DISABLE
\* is pushed, the handler ends without another reload attempt, and every other tab keeps
\* its TabState and its alarm.
C8_ReloadFailure == [][C8_Catch /\ C8_Steps]_vars

\* the handler of a rejected reload has pushed DISABLE; its tab is Disabled, nothing is
\* scheduled for it, and the other tab is still scheduled with its alarm
C8_Witness ==
  \E s \in Slots, u \in Tabs :
    /\ hs[s].op = "alarm" /\ hs[s].pc = "stop4" /\ lastPush = DisableMsg(hs[s].tab)
    /\ Disabled(tabStates[hs[s].tab]) /\ stored = tabStates
    /\ alarms[hs[s].tab] = Null /\ hs[s].tab \notin fired
    /\ u # hs[s].tab /\ u \in Entries /\ Scheduled(tabStates[u]) /\ alarms[u] # Null

\* ------------------------------------------------------------ C9
\* the reload of tab T has just succeeded
Reloaded(T) == InFlight("alarm", "alarm3", T)

\* tab T is started and neither stopped, paused nor closed
Running(T) == View(T).enabled /\ ~View(T).paused

\* C9: under fairness of alarm firing and handler execution, a tab that was started and
\* from then on is never stopped, paused or closed (a failed reload stops it) is
\* reloaded again and again.
C9_PeriodicReload == \A T \in Tabs : <>[]Running(T) => []<>Reloaded(T)

\* ------------------------------------------------------------ C10
\* the alarm of tab t is gone although nothing of the program canceled it
ScheduleLost(t) == alarms[t] = Null /\ t \notin fired

\* the onUpdated listener up to its first await
C10_Dispatch ==
  \A t \in Tabs : NavComplete(t) =>
    LET st == View(t) IN
    /\ (st.enabled /\ st.autoStart /\ ~st.paused /\ ScheduleLost(t)) =>
         /\ View(t)' = [st EXCEPT !.nextReloadAt = Now + st.intervalMs]
         /\ stored' = tabStates'
         /\ InFlight("nav", "nav2", t)'
    /\ ~(st.enabled /\ st.autoStart /\ ~st.paused) =>
         /\ \A u \in Tabs : View(u)' = View(u)
         /\ hs' = hs /\ stored' = stored /\ alarms' = alarms /\ lastPush' = NoPush

\* the rest of the rearm
C10_Steps ==
  \A s \in Slots : Nav3(s) =>
    LET t == hs[s].tab IN
    /\ alarms'[t] # Null
    /\ tabStates' = tabStates /\ Scheduled(tabStates[t])
    /\ lastPush' = [type |-> "CONFIGURE", tab |-> t,
                    badgeCountdown |-> tabStates[t].badgeCountdown,
                    nextReloadAt |-> tabStates[t].nextReloadAt]

\* C10: when the alarm of a tab was lost in a restart and the rehydrated TabState is
\* enabled, autoStart and not paused, the next onUpdated(complete) for the tab sets
\* nextReloadAt = now + intervalMs, saves, creates the alarm again and pushes CONFIGURE;
\* when enabled, autoStart or not-paused fails, the listener changes nothing.
C10_SelfHeal == [][C10_Dispatch /\ C10_Steps]_vars

\* ------------------------------------------------------------ C11
\* this step does not pause tab T
NotPausedHere(T) == View(T)'.paused => View(T).paused

\* this step resumes no tab other than T
OnlyResumes(T) == \A u \in Tabs \ {T} : View(u).paused => View(u)'.paused

\* C11: no step of the onActivated listener for tab T pauses T, and none resumes a tab
\* other than T, whatever the states of the tabs are.
C11_Activation ==
  [][/\ \A T \in Tabs : TabActivated(T) => NotPausedHere(T) /\ OnlyResumes(T)
     /\ \A s \in Slots, T \in Tabs :
          (hs[s].op = "act" /\ hs[s].self = T
           /\ (Resume2(s) \/ Resume3(s) \/ ActLoop(s) \/ Pause2(s) \/ Pause3(s) \/ Pause4(s))) =>
            NotPausedHere(T) /\ OnlyResumes(T)]_vars

\* the listener for tab T has resumed T and its loop has then paused the other tab,
\* without touching T
C11_Witness ==
  \E s \in Slots :
    /\ hs[s].op = "act" /\ hs[s].pc = "pause2" /\ hs[s].tab # hs[s].self
    /\ hs[s].iv > 0
    /\ hs[s].self \in Entries /\ Scheduled(tabStates[hs[s].self])
    /\ alarms[hs[s].self] # Null
    /\ Paused(tabStates[hs[s].tab])

\* ------------------------------------------------------------ C12
\* the tabs onActivated acts on
Inactivable(st) == st.enabled /\ st.pauseWhenInactive

\* a step of the listener leaves the tabs alone that are not enabled or opted out
C12_Frame == \A u \in Tabs : ~Inactivable(View(u)) => View(u)' = View(u)

\* the listener for T ends in this step: T is not paused, the others are
C12_End(T) ==
  /\ Inactivable(View(T)') => Scheduled(View(T)')
  /\ \A u \in Tabs \ {T} : Inactivable(View(u)') => Paused(View(u)') /\ alarms'[u] = Null
  /\ active' = T

\* C12: run without another event in between, onActivated(T) first clears the badge,
\* resumes T when it is enabled and pauseWhenInactive, leaves every other tab that is
\* enabled and pauseWhenInactive paused, and changes no tab that is not enabled or has
\* pauseWhenInactive = false.
C12_ActivationEffect ==
  [][/\ \A T \in Tabs : TabActivated(T) =>
          /\ badge' = ""
          /\ C12_Frame
          /\ (Inactivable(View(T)) /\ View(T).paused) => Scheduled(View(T)')
     /\ \A s \in Slots, T \in Tabs :
          (hs[s].op = "act" /\ hs[s].self = T
           /\ (Resume2(s) \/ Resume3(s) \/ ActLoop(s) \/ Pause2(s) \/ Pause3(s) \/ Pause4(s))) =>
            /\ C12_Frame
            /\ hs'[s] = Idle => C12_End(T)]_vars

\* onActivated(T) has run to its end: T, paused before, is scheduled again (its round
\* trip is complete), the other tab is paused, a tab is left as it was, badge empty
C12_Witness ==
  \E T \in Tabs, u \in Tabs :
    /\ NoneInFlight /\ active = T /\ badge = "" /\ u # T
    /\ trip[T].ph = "resumed" /\ Scheduled(View(T)) /\ alarms[T] # Null
    /\ Paused(View(u)) /\ alarms[u] = Null

\* ------------------------------------------------------------ C13
\* the defaults, as the claim lists them
C13_Defaults ==
  [enabled |-> FALSE, intervalMs |-> 60000, autoStart |-> TRUE, pauseWhenInactive |-> TRUE,
   badgeCountdown |-> TRUE, paused |-> FALSE, remainingMs |-> Null, nextReloadAt |-> Null]

\* tab t has no entry, in memory or stored
NoEntry(t) == t \notin DOMAIN tabStates /\ t \notin DOMAIN stored

\* C13: the onRemoved listener for T leaves no entry for T in tabStates or in the stored
\* map and, when it ends, no alarm for T (with no alarm there, clearing changes
\* nothing); GET_STATE for a closed tab answers with the defaults.
C13_Closed ==
  [][/\ \A T \in Tabs : TabRemoved(T) =>
          /\ NoEntry(T)'
          /\ IF T \in Entries THEN InFlight("rm", "rm2", T)' /\ alarms' = alarms
             ELSE /\ alarms'[T] = Null /\ hs' = hs
                  /\ alarms[T] = Null => alarms' = alarms
     /\ \A s \in Slots, T \in Tabs : (Rm2(s) /\ hs[s].tab = T) =>
          /\ NoEntry(T)' /\ alarms'[T] = Null /\ hs'[s] = Idle
          /\ \A u \in Tabs \ {T} : alarms'[u] = alarms[u]
          /\ alarms[T] = Null => alarms' = alarms
     /\ \A T \in Tabs : (GetStateMsg(T) /\ T \notin open) =>
          T \in Entries' /\ tabStates'[T] = C13_Defaults]_vars

\* the active tab was started (the badge still shows its interval) and closed; its
\* alarm is gone, a GET_STATE has since put the defaults in memory, and the stored map
\* has no entry for it
C13_Witness ==
  \E T \in Tabs :
    /\ NoneInFlight /\ open = Tabs \ {T} /\ active = 0 /\ badge # "" /\ fired = {}
    /\ T \in Entries /\ tabStates[T] = C13_Defaults
    /\ T \notin DOMAIN stored /\ alarms[T] = Null

\* ------------------------------------------------------------ C14
\* MM:SS of floor(ms / 1000) seconds for the remainingMs the probes send
C14_Text(ms) == CASE ms = 999 -> "00:00" [] ms = 1000 -> "00:01" [] ms = 61000 -> "01:01"

\* no TabState, stored entry or alarm changes in this step
C14_Frame == (\A u \in Tabs : View(u)' = View(u)) /\ stored' = stored /\ alarms' = alarms

\* C14: a TICK of tab T with remainingMs sets the badge to MM:SS of floor(remainingMs /
\* 1000) seconds (1000 ms gives "00:01") exactly when T is enabled, not paused, has
\* badgeCountdown and is the active tab; otherwise the badge stays as it is; no step of
\* the handler changes a TabState field or an alarm.
C14_Tick ==
  [][/\ \A T \in Tabs, ms \in TickInputs : TickMsg(T, ms) =>
          /\ C14_Frame /\ badge' = badge
          /\ IF View(T).enabled /\ ~View(T).paused /\ View(T).badgeCountdown
             THEN \E s \in Slots : hs'[s].pc = "tick2" /\ hs'[s].tab = T /\ hs'[s].iv = ms
             ELSE hs' = hs
     /\ \A s \in Slots, T \in Tabs : (Tick2(s) /\ hs[s].tab = T) =>
          /\ C14_Frame /\ hs'[s] = Idle
          /\ View(T).enabled /\ ~View(T).paused /\ View(T).badgeCountdown
          /\ badge' = IF active = T THEN C14_Text(hs[s].iv) ELSE badge]_vars

\* a TICK with 61000 ms of the active tab has been handled: the badge shows 01:01
C14_Witness ==
  /\ NoneInFlight /\ badge = "01:01" /\ active \in Entries
  /\ Scheduled(tabStates[active]) /\ tabStates[active].badgeCountdown

\* ------------------------------------------------------------ C15
\* C15: whenever no handler is in flight and the badge text is not empty, the active tab
\* is enabled, not paused and has badgeCountdown = true.
C15_Badge ==
  (NoneInFlight /\ badge # "" /\ active # 0) =>
    /\ View(active).enabled /\ ~View(active).paused /\ View(active).badgeCountdown

\* ------------------------------------------------------------ C16
\* C16: CS_READY of tab T is answered with CONFIGURE, carrying the tab's badgeCountdown
\* and nextReloadAt, exactly when T is enabled, not paused and nextReloadAt is not null,
\* and with DISABLE otherwise (so a disabled or paused tab only ever gets DISABLE); the
\* handler changes no TabState field.
C16_ProbeReady ==
  [][\A T \in Tabs : ProbeReady(T) =>
       /\ lastPush' = IF View(T).enabled /\ ~View(T).paused /\ View(T).nextReloadAt # Null
                      THEN [type |-> "CONFIGURE", tab |-> T,
                            badgeCountdown |-> View(T).badgeCountdown,
                            nextReloadAt |-> View(T).nextReloadAt]
                      ELSE [type |-> "DISABLE", tab |-> T, badgeCountdown |-> FALSE,
                            nextReloadAt |-> Null]
       /\ \A u \in Tabs : View(u)' = View(u)
       /\ stored' = stored /\ alarms' = alarms /\ hs' = hs /\ badge' = badge]_vars

\* CS_READY of a paused tab has just been answered with DISABLE (no handler is in
\* flight, so the DISABLE is not the one of stopTab)
C16_Witness ==
  \E T \in Tabs :
    /\ NoneInFlight /\ lastPush = DisableMsg(T)
    /\ T \in Entries /\ Paused(tabStates[T])


\* ------------------------------------------------------------ C17
\* what the durable store holds for tab t (no entry reads as the defaults)
StoredView(t) == IF t \in DOMAIN stored THEN stored[t] ELSE DefaultState

\* the store, as it is before the sending step, already holds the state message m tells
InStore(m) ==
  LET st == StoredView(m.tab)
  IN  /\ m.type = "CONFIGURE" =>
           /\ st.enabled /\ ~st.paused
           /\ st.nextReloadAt = m.nextReloadAt /\ st.nextReloadAt # Null
           /\ st.badgeCountdown = m.badgeCountdown
      /\ m.type = "PAUSE" => st.enabled /\ st.paused /\ st.nextReloadAt = Null
      /\ m.type = "DISABLE" => ~(st.enabled /\ ~st.paused /\ st.nextReloadAt # Null)

\* the steps of the handlers that send after having changed the TabState
MutatingPush(s) ==
  Start3(s) \/ Stop3(s) \/ Pause3(s) \/ Resume3(s) \/ Alarm3(s) \/ Nav3(s)

AfterReschedule(T) ==
  /\ View(T)'.enabled /\ ~View(T)'.paused
  /\ View(T)'.nextReloadAt # Null /\ alarms'[T] # Null

\* what every serial order leaves when a stop, pause or close of tab T ends with no
\* other handler still running
AfterQuiet(T) == View(T)'.nextReloadAt = Null /\ alarms'[T] = Null

\* C18: same-tab serialization. Whatever handlers of the same tab interleave, the
\* TabState and the schedule are those of a serial order: when the onAlarm handler of
\* a tab has rescheduled, the tab is enabled, not paused, with nextReloadAt and an alarm;
\* when a stop, a pause or a close of a tab ends and nothing else is running, the tab
\* has neither nextReloadAt nor an alarm.
C18_SameTabSerialization ==
  [][ \A s \in Slots, T \in Tabs :
        /\ (hs[s].op = "alarm" /\ hs[s].tab = T /\ Alarm3(s)) => AfterReschedule(T)
        /\ (hs[s].tab = T /\ (Stop4(s) \/ Pause4(s) \/ Rm2(s)) /\ NoneInFlight') =>
             AfterQuiet(T) ]_vars


\* ------------------------------------------------------------ C19
\* a loadStates() has been called and its storage read has not resolved yet
LoadPending == \E s \in Slots : hs[s].pc = "load2"

\* C19: no read-before-load race. While a loadStates() is pending nothing but its own
\* completion changes the in-memory map; when the load completes it changes no entry the
\* handlers have created or written; and whenever no handler is running, the in-memory
\* state of every tab is the persisted one.
C19_NoReadBeforeLoad ==
  [][ /\ LoadPending => (tabStates' = tabStates \/ \E s \in Slots : Load2(s))
      /\ \A s \in Slots : Load2(s) => \A t \in DOMAIN tabStates : View(t)' = View(t)
      /\ NoneInFlight' => \A t \in Tabs : View(t)' = StoredView(t)' ]_vars


\* ------------------------------------------------------------ C20
\* C20: probe tick gating. A step of the probe announces a TICK only when its mirror
\* state has enabled, badgeCountdown and a nextReloadAt that is not null and its tick
\* timer is running, and the TICK carries max(0, nextReloadAt - now); no TICK is announced
\* after a PAUSE, a DISABLE or a CONFIGURE with enabled = false until the next CONFIGURE
\* with enabled = true; and at most one interval timer is live, the one tickTimer names.
C20_TickGating ==
  [][ /\ probe'.sent.type = "TICK" =>
           /\ probe.enabled /\ probe.badgeCountdown /\ probe.nextReloadAt # Null
           /\ probe.tickTimer # 0 /\ probe.tickTimer \in probe.live
           /\ probe'.sent.remainingMs =
                (IF probe.nextReloadAt > probe.now THEN probe.nextReloadAt - probe.now ELSE 0)
           /\ ~probe.quiet
      /\ (ProbePause \/ ProbeDisable
            \/ \E in \in ConfigureInputs : ~in[1] /\ ProbeConfigure(in[1], in[2], in[3]))
           => probe'.quiet /\ probe'.live = {} /\ probe'.tickTimer = 0
      /\ (\E in \in ConfigureInputs : in[1] /\ ProbeConfigure(in[1], in[2], in[3]))
           => ~probe'.quiet /\ probe'.live = {probe'.tickTimer} /\ probe'.tickTimer # 0
      /\ (\E id \in 1..MaxTimers : TimerFire(id)) \/ ProbeClock => probe'.quiet = probe.quiet
      /\ Cardinality(probe'.live) <= 1 ]_vars

\* a TICK is announced after MaxTimers CONFIGURE messages with enabled = true: only the
\* timer of the latest one is live, and the TICK carries a remaining time above 0
C20_Witness ==
  /\ probe.sent.type = "TICK" /\ probe.sent.remainingMs > 0
  /\ probe.ids = MaxTimers /\ probe.tickTimer = MaxTimers /\ probe.live = {MaxTimers}


\* ------------------------------------------------------------ C21
\* C21: scrape diff. The run that gets to its diff logs as new exactly the oracle's ids
\* that are not in the persisted seen-set, and the seen-set afterwards is the one before
\* with exactly those ids added, each with the current timestamp and every other
\* timestamp as it was; a run on the oracle output of the latest run, with no writer in
\* between, logs no new item and leaves the seen-set as it is.
C21_ScrapeDiff ==
  [][ \A p \in Pages : ScrapeDiff(p) =>
        LET leads == scrape.page[p].leads
            before == scrape.seen
            after == scrape'.seen
            absent == {l \in leads : l \notin DOMAIN before}
        IN  /\ scrape'.log.ids = absent
            /\ scrape'.log.type = (IF absent = {} THEN "noNew" ELSE "new")
            /\ DOMAIN after = DOMAIN before \cup absent
            /\ \A i \in DOMAIN after :
                 after[i] = (IF i \in absent THEN scrape.now ELSE before[i])
            /\ leads = scrape.lastDone => scrape'.log.ids = {} /\ after = before ]_vars

\* the second of two runs, on the oracle output {a, b} that the first one marked, at a
\* later time, has found nothing new: the timestamps are the earlier ones
C21_Witness ==
  /\ scrape.runs = 2 /\ scrape.log.type = "noNew" /\ scrape.lastDone = {"a", "b"}
  /\ DOMAIN scrape.seen = {"a", "b"}
  /\ \A i \in DOMAIN scrape.seen : scrape.seen[i] < scrape.now

\* ------------------------------------------------------------ C22
\* C22: seen-set under concurrent probes. Whenever no run is in flight, the persisted
\* seen-set holds every id that some run marked as seen, and holds only ids that some
\* run logged as new.
C22_NoLostIds ==
  ~RunInFlight =>
    /\ \A i \in scrape.marked : IsSeen(scrape.seen, i)
    /\ DOMAIN scrape.seen \subseteq scrape.told


\* ------------------------------------------------------------ C23
\* C23: schedule/state agreement. Whenever no handler is in flight, a tab whose alarm
\* has not just fired has a pending alarm exactly when its TabState is enabled, not
\* paused and has a nextReloadAt, and that alarm is due no earlier than nextReloadAt.
C23_ScheduleAgrees ==
  NoneInFlight =>
    \A t \in Tabs \ fired :
      /\ alarms[t] # Null <=>
           (View(t).enabled /\ ~View(t).paused /\ View(t).nextReloadAt # Null)
      /\ alarms[t] # Null => alarms[t] >= View(t).nextReloadAt


\* ------------------------------------------------------------ C24
\* C24: no early reload. When the onAlarm listener reloads a tab (it passes its guard
\* and calls chrome.tabs.reload for a tab that exists), the tab's nextReloadAt is not
\* in the future, whatever stop, start, pause or resume came between the firing of the
\* alarm and its delivery.
C24_NoEarlyReload ==
  [][ \A T \in Tabs :
        (OnAlarm(T) /\ InFlight("alarm", "alarm2", T)' /\ T \in open) =>
          View(T).nextReloadAt # Null /\ View(T).nextReloadAt <= Now ]_vars


\* ------------------------------------------------------------ C25
\* C25: the active tab is not left paused. Whenever no handler is in flight and a window
\* of the browser has the focus, the active tab, if it is enabled with pauseWhenInactive,
\* is not paused and has an alarm pending (or one that has fired and is about to be
\* delivered).
C25_ActiveNotPaused ==
  (NoneInFlight /\ focused /\ active # 0) =>
    ((View(active).enabled /\ View(active).pauseWhenInactive) =>
       /\ ~View(active).paused
       /\ alarms[active] # Null \/ active \in fired)

====
